---- MODULE Spec2Model ----
(***************************************************************************)
(* A model of validator_version_4.py: the TerraformValidator class and     *)
(* main().  Strings are sequences of one-character strings so that         *)
(* str.endswith, urlparse and os.path.join are computed, not assumed.      *)
(***************************************************************************)
EXTENDS Integers, Sequences, FiniteSets, TLC

VARIABLES
    target,      \* what args.path names: "missing", "file" or "dir"
    fs,          \* the listing of the target directory (a tree of entries)
    hcl,         \* file path -> what hcl2.load yields for it (Unread until first read)
    net,         \* URL -> what requests.head yields for it (Unprobed until first probe)
    pc,          \* position of the caller (main, or an API client)
    directory,   \* self.directory (None before construction)
    walk_pos,    \* position of the os.walk loop of validate_directory
    results,     \* the local `results` of validate_directory
    vd_state,    \* "idle", "running", "empty", "completed" or "raised"
    on_path,     \* whether the terraform binary is on the execution path
    io,          \* external calls made so far, in order
    returned,    \* every ValidationResult validate_file has returned, in order
    summary      \* the summary main prints (None until printed)

vars == <<target, fs, hcl, net, pc, directory, walk_pos, results, vd_state,
          on_path, io, returned, summary>>

----------------------------------------------------------------------------
(* Bounds of the model *)

\* the target directory lists at most this many entries
MaxEntries == 2
\* the project declares at most this many module blocks in all
MaxModules == 2
\* an API client calls validate_file at most this many times
MaxCalls == 2

----------------------------------------------------------------------------
(* Strings *)

\* Python's None where a string is expected: no sequence of characters
None == <<"None">>

LowerCase == <<"a","b","c","d","e","f","g","h","i","j","k","l","m",
               "n","o","p","q","r","s","t","u","v","w","x","y","z">>
UpperCase == <<"A","B","C","D","E","F","G","H","I","J","K","L","M",
               "N","O","P","Q","R","S","T","U","V","W","X","Y","Z">>
Digits == {"0","1","2","3","4","5","6","7","8","9"}

Range(s) == {s[i] : i \in DOMAIN s}

IsAlpha(c) == c \in Range(LowerCase) \cup Range(UpperCase)

\* urllib.parse.scheme_chars
SchemeChars == Range(LowerCase) \cup Range(UpperCase) \cup Digits \cup {"+", "-", "."}

\* str.lower, one character
LowerChar(c) ==
    IF c \in Range(UpperCase)
    THEN LowerCase[CHOOSE i \in DOMAIN UpperCase : UpperCase[i] = c]
    ELSE c

\* str.lower
Lower(s) == [i \in DOMAIN s |-> LowerChar(s[i])]

\* str.find(c) + 1: the position of the first c in s, 0 when there is none
Find(s, c) ==
    IF \E i \in DOMAIN s : s[i] = c
    THEN CHOOSE i \in DOMAIN s : s[i] = c /\ \A j \in 1..(i - 1) : s[j] # c
    ELSE 0

\* str.endswith
EndsWith(s, suffix) ==
    /\ Len(s) >= Len(suffix)
    /\ SubSeq(s, Len(s) - Len(suffix) + 1, Len(s)) = suffix

\* str.split(sep) for a one-character separator
RECURSIVE Split(_, _)
Split(s, sep) ==
    LET i == Find(s, sep)
    IN  IF i = 0 THEN <<s>>
        ELSE <<SubSeq(s, 1, i - 1)>> \o Split(SubSeq(s, i + 1, Len(s)), sep)

\* the '.tf' of lines 162 and 180
DotTf == <<".", "t", "f">>

\* f.endswith('.tf')
endswith_tf(f) == EndsWith(f, DotTf)

\* os.path.join(a, b)
os_path_join(a, b) ==
    IF b # <<>> /\ b[1] = "/" THEN b
    ELSE IF a = <<>> \/ a[Len(a)] = "/" THEN a \o b
    ELSE a \o <<"/">> \o b

\* urlparse(source).scheme
urlparse_scheme(url) ==
    LET i == Find(url, ":")
    IN  IF /\ i > 1
           /\ IsAlpha(url[1])
           /\ \A k \in 1..(i - 1) : url[k] \in SchemeChars
        THEN Lower(SubSeq(url, 1, i - 1))
        ELSE <<>>

Http == <<"h","t","t","p">>
Https == <<"h","t","t","p","s">>

----------------------------------------------------------------------------
(* The file system *)

\* names of the entries the model's directories may hold
a_tf == <<"a", ".", "t", "f">>
b_tfv == <<"b", ".", "t", "f", "v">>
c_tf == <<"c", ".", "t", "f">>
m_dir == <<"m">>
e_tf_dir == <<"e", ".", "t", "f">>

\* args.path
DirPath == <<"d">>

File(n) == [name |-> n, isdir |-> FALSE, children |-> <<>>]
Dir(n, ch) == [name |-> n, isdir |-> TRUE, children |-> ch]

SubListings == {<<>>, <<File(c_tf)>>}

RootEntries ==
    {File(a_tf), File(b_tfv)}
        \cup {Dir(m_dir, ch) : ch \in SubListings}
        \cup {Dir(e_tf_dir, <<>>)}

\* a directory holds no two entries of one name
Listings ==
    {s \in UNION {[1..k -> RootEntries] : k \in 0..MaxEntries} :
        \A i, j \in DOMAIN s : s[i].name = s[j].name => i = j}

\* os.listdir(listing's directory): the names, files and directories alike
os_listdir(listing) == [i \in DOMAIN listing |-> listing[i].name]

IsDirEntry(e) == e.isdir
IsFileEntry(e) == ~e.isdir

RECURSIVE Concat(_)
Concat(ss) == IF ss = <<>> THEN <<>> ELSE Head(ss) \o Concat(Tail(ss))

\* os.walk that does not descend: the top directory alone
os_walk_top_only(top, listing) ==
    <<[root |-> top, files |-> os_listdir(SelectSeq(listing, IsFileEntry))]>>

\* os.walk(top): one <<root, files>> per directory, top-down, a directory's
\* files before its subdirectories
RECURSIVE os_walk(_, _)
os_walk(top, listing) ==
    LET files == os_listdir(SelectSeq(listing, IsFileEntry))
        dirs == SelectSeq(listing, IsDirEntry)
    IN  <<[root |-> top, files |-> files]>>
            \o Concat([i \in DOMAIN dirs |->
                          os_walk(os_path_join(top, dirs[i].name), dirs[i].children)])

\* the (root, file) pairs the two nested loops of lines 178-179 visit, in order
WalkPairs(top, listing) ==
    LET w == os_walk(top, listing)
    IN  Concat([i \in DOMAIN w |->
                   [j \in DOMAIN w[i].files |->
                       [root |-> w[i].root, file |-> w[i].files[j]]]])

\* resolve path components below a listing
RECURSIVE Lookup(_, _)
Lookup(parts, listing) ==
    IF parts = <<>> THEN TRUE
    ELSE IF Head(parts) \in {<<>>, <<".">>} THEN Lookup(Tail(parts), listing)
    ELSE \E i \in DOMAIN listing :
            /\ listing[i].name = Head(parts)
            /\ \/ Tail(parts) = <<>>
               \/ listing[i].isdir /\ Lookup(Tail(parts), listing[i].children)

\* os.path.exists(path), for a path relative to the working directory, which
\* holds the target and nothing else
os_path_exists(path, tgt, listing) ==
    LET parts == Split(path, "/")
    IN  /\ tgt # "missing"
        /\ parts # <<>>
        /\ Head(parts) = DirPath
        /\ \/ Tail(parts) = <<>>
           \/ tgt = "dir" /\ Lookup(Tail(parts), listing)

----------------------------------------------------------------------------
(* What the parser and the network answer *)

src_http == <<"h","t","t","p",":","/","/","h">>
src_https == <<"h","t","t","p","s",":","/","/","s">>
src_local == <<".","/","m">>
src_git == <<"g","i","t",":",":","g">>

\* the values a module's `source` attribute takes (None: the attribute is absent)
SourceAttrs == {None, src_http, src_https, src_local, src_git}

\* the sources requests.head can be asked about
URLs == {src_http, src_https}

\* the name of the i-th module block a file declares
ModuleName(i) == <<"m", i>>

UnreadFile == [state |-> "unread", module |-> <<>>]
\* hcl2.load raises
ParseFailure == [state |-> "error", module |-> <<>>]
\* hcl2.load returns a mapping whose 'module' section declares the blocks
\* m1, m2, ... in this order, with the sources f gives them
ParsedConfig(f) ==
    [state |-> "parsed",
     module |-> [i \in DOMAIN f |-> [name |-> ModuleName(i), source |-> f[i]]]]

ParsedConfigs(n) ==
    {ParsedConfig(f) : f \in UNION {[1..k -> SourceAttrs] : k \in 0..n}}

Response(code) == [kind |-> "response", status_code |-> code]
RequestException == [kind |-> "exception", status_code |-> 0]
Unprobed == [kind |-> "unprobed", status_code |-> 0]

StatusCodes == {200, 400}
Outcomes == {Response(c) : c \in StatusCodes} \cup {RequestException}

\* every file of the tree, by path, in os.walk order
FilePaths(tgt, listing) ==
    IF tgt # "dir" THEN <<>>
    ELSE LET w == WalkPairs(DirPath, listing)
         IN  [i \in DOMAIN w |-> os_path_join(w[i].root, w[i].file)]

RECURSIVE ModulesIn(_, _)
ModulesIn(h, paths) ==
    IF paths = <<>> THEN 0
    ELSE Len(h[Head(paths)].module) + ModulesIn(h, Tail(paths))

\* the files of the tree named *.tf, in os.walk order
TfPaths == SelectSeq(FilePaths(target, fs), endswith_tf)

\* the file contents a first read of file_path may reveal
HclChoices(file_path) ==
    IF hcl[file_path].state # "unread" THEN {hcl}
    ELSE LET left == MaxModules - ModulesIn(hcl, FilePaths(target, fs))
         IN  {[hcl EXCEPT ![file_path] = c] :
                 c \in {ParseFailure} \cup ParsedConfigs(left)}

\* the answers the network may give, those already given being kept
NetChoices ==
    {n \in [URLs -> Outcomes] : \A u \in URLs : net[u] # Unprobed => n[u] = net[u]}

Call(op, arg) == [op |-> op, arg |-> arg]

\* the URLs a sequence of calls probed
Probed(calls) == {calls[i].arg : i \in {j \in DOMAIN calls : calls[j].op = "head"}}

----------------------------------------------------------------------------
(* TerraformValidator *)

\* f"Module {module_name}: Unreachable source URL {source}"
UnreachableSource(module_name, source) ==
    [text |-> "Module %s: Unreachable source URL %s", module |-> module_name, source |-> source]

\* f"Module {module_name}: Local source path does not exist {source}"
MissingLocalSource(module_name, source) ==
    [text |-> "Module %s: Local source path does not exist %s", module |-> module_name, source |-> source]

\* the status test, off by one
is_error_status_gt(status_code) == status_code > 400

\* response.status_code >= 400 of lines 227 and 246
is_error_status(status_code) == status_code >= 400

\* requests.head(url, ...) failed: a RequestException, or an error status
unreachable(url, n) ==
    n[url].kind = "exception" \/ is_error_status(n[url].status_code)

\* the body of the loop of check_module_sources for one module:
\* the issues it appends and the calls it makes
check_one_module(m, n) ==
    LET source == m.source
        scheme == urlparse_scheme(source)
    IN  IF source \in {None, <<>>}
        THEN [issues |-> <<>>, io |-> <<>>]
        ELSE IF scheme \in {Http, Https}
        THEN [issues |->
                 IF unreachable(source, n)
                 THEN <<UnreachableSource(m.name, source)>>
                 ELSE <<>>,
              io |-> <<Call("head", source)>>]
        ELSE IF scheme = <<>>
        THEN LET local_path == os_path_join(directory, source)
             IN  [issues |->
                     IF ~os_path_exists(local_path, target, fs)
                     THEN <<MissingLocalSource(m.name, source)>>
                     ELSE <<>>,
                  io |-> <<Call("exists", local_path)>>]
        ELSE [issues |-> <<>>, io |-> <<>>]

\* check_module_sources(parser_data), under network answers n
check_module_sources(parser_data, n) ==
    LET modules == parser_data.module
        each == [i \in DOMAIN modules |-> check_one_module(modules[i], n)]
    IN  [ret |-> Concat([i \in DOMAIN each |-> each[i].issues]),
         io |-> Concat([i \in DOMAIN each |-> each[i].io])]

\* extract_urls(parser_data)
extract_urls(parser_data) == <<>>

\* check_url_reachability(parser_data), under network answers n
check_url_reachability(parser_data, n) ==
    LET urls == extract_urls(parser_data)
        bad(u) == unreachable(u, n)
    IN  [ret |-> SelectSeq(urls, bad),
         io |-> [i \in DOMAIN urls |-> Call("head", urls[i])]]

\* parse_terraform_file(file_path), the files holding h
parse_terraform_file(file_path, h) ==
    [raised |-> h[file_path].state = "error",
     ret |-> h[file_path],
     io |-> <<Call("open", file_path)>>]

ValidationResult(file_path, issues, is_valid) ==
    [file_path |-> file_path, issues |-> issues, is_valid |-> is_valid]

\* f"Invalid or unreachable module sources found: {invalid_sources}"
InvalidSourcesIssue(invalid_sources) ==
    [text |-> "Invalid or unreachable module sources found: %s", list |-> invalid_sources]

\* f"Unreachable URLs found: {unreachable_urls}"
UnreachableUrlsIssue(unreachable_urls) ==
    [text |-> "Unreachable URLs found: %s", list |-> unreachable_urls]

\* f"Error during validation: {str(e)}"
ErrorIssue(file_path) ==
    [text |-> "Error during validation: %s", list |-> <<file_path>>]

\* issues as a list shared by all calls: it starts as the last call left it
shared_issues ==
    IF returned = <<>> THEN <<>> ELSE returned[Len(returned)].issues

\* issues = [] of line 188
new_issues == <<>>

\* issues.extend(invalid_sources) in place of lines 194-195
extend_invalid_sources(issues, invalid_sources) == issues \o invalid_sources

\* lines 194-195: the checker's whole list goes into one issue
append_invalid_sources(issues, invalid_sources) ==
    IF invalid_sources # <<>>
    THEN Append(issues, InvalidSourcesIssue(invalid_sources))
    ELSE issues

\* lines 199-200: the unreachable URLs go into one issue
append_unreachable_urls(issues, unreachable_urls) ==
    IF unreachable_urls # <<>>
    THEN Append(issues, UnreachableUrlsIssue(unreachable_urls))
    ELSE issues

\* no_issues, off by one
no_issues_le_one(issues) == Len(issues) <= 1

\* len(issues) == 0 of line 205
no_issues(issues) == Len(issues) = 0

\* validate_file without its except clause: the error leaves validate_file
on_exception_uncaught(file_path, calls) ==
    [raised |-> TRUE,
     ret |-> ValidationResult(file_path, <<>>, FALSE),
     io |-> calls]

\* lines 207-213: the except clause of validate_file, `calls` made before it
on_exception(file_path, calls) ==
    [raised |-> FALSE,
     ret |-> ValidationResult(file_path, <<ErrorIssue(file_path)>>, FALSE),
     io |-> calls]

\* validate_file(file_path), the files holding h, under network answers n
validate_file(file_path, h, n) ==
    LET parsed == parse_terraform_file(file_path, h)
        invalid_sources == check_module_sources(parsed.ret, n)
        unreachable_urls == check_url_reachability(parsed.ret, n)
        issues == append_unreachable_urls(
                      append_invalid_sources(new_issues, invalid_sources.ret),
                      unreachable_urls.ret)
    IN  IF parsed.raised
        THEN on_exception(file_path, parsed.io)
        ELSE [raised |-> FALSE,
              ret |-> ValidationResult(file_path, issues, no_issues(issues)),
              io |-> parsed.io \o invalid_sources.io \o unreachable_urls.io]

\* the outcomes of subprocess.run(['terraform', ...]): the binary missing, or
\* else exit status 0, another exit status, or any other failure to run it
SubprocessOutcomes ==
    IF on_path THEN {"exit0", "exit1", "Exception"} ELSE {"FileNotFoundError"}

\* run_terraform_fmt(), the subprocess ending in `outcome`
run_terraform_fmt(outcome) ==
    [raised |-> FALSE, ret |-> (outcome = "exit0"),
     io |-> <<Call("terraform fmt -check", directory)>>]

\* run_terraform_init(), the subprocess ending in `outcome`
run_terraform_init(outcome) ==
    [raised |-> FALSE, ret |-> (outcome = "exit0"),
     io |-> <<Call("terraform init", directory)>>]

\* run_terraform_validate(), the subprocess ending in `outcome`
run_terraform_validate(outcome) ==
    [raised |-> FALSE, ret |-> (outcome = "exit0"),
     io |-> <<Call("terraform validate", directory)>>]

\* run_terraform_plan without its `except FileNotFoundError` clause
run_terraform_plan_uncaught(outcome) ==
    [raised |-> (outcome = "FileNotFoundError"), ret |-> (outcome = "exit0"),
     io |-> <<Call("terraform plan", directory)>>]

\* run_terraform_plan(), the subprocess ending in `outcome`
run_terraform_plan(outcome) ==
    [raised |-> FALSE, ret |-> (outcome = "exit0"),
     io |-> <<Call("terraform plan", directory)>>]

\* os.path.isdir(args.path)
os_path_isdir(tgt) == tgt = "dir"

\* __init__ without the os.path.isdir check of lines 52-53
TerraformValidator_init_no_isdir(path, tgt, listing) ==
    IF ~os_path_exists(path, tgt, listing)
    THEN [raised |-> TRUE, directory |-> None]
    ELSE [raised |-> FALSE, directory |-> path]

\* TerraformValidator.__init__(directory)
TerraformValidator_init(path, tgt, listing) ==
    IF ~os_path_exists(path, tgt, listing)
    THEN [raised |-> TRUE, directory |-> None]
    ELSE IF ~os_path_isdir(tgt)
    THEN [raised |-> TRUE, directory |-> None]
    ELSE [raised |-> FALSE, directory |-> path]

\* tf_files of line 162
tf_files(listing) == SelectSeq(os_listdir(listing), endswith_tf)

----------------------------------------------------------------------------
(* The state machine *)

NoSummary == [printed |-> FALSE, total |-> 0, with_issues |-> 0, failed |-> FALSE]

InitWorld ==
    /\ target \in {"missing", "file", "dir"}
    /\ fs \in (IF target = "dir" THEN Listings ELSE {<<>>})
    /\ hcl = [p \in Range(FilePaths(target, fs)) |-> UnreadFile]
    /\ net = [u \in URLs |-> Unprobed]
    /\ directory = None
    /\ walk_pos = 1
    /\ results = <<>>
    /\ vd_state = "idle"
    /\ io = <<>>
    /\ returned = <<>>
    /\ summary = NoSummary

Init == InitWorld /\ on_path \in BOOLEAN /\ pc = "main"

world == <<target, fs, on_path>>

\* line 287 of main: validator = TerraformValidator(args.path)
main_construct ==
    /\ pc = "main"
    /\ LET made == TerraformValidator_init(DirPath, target, fs)
       IN  /\ directory' = made.directory
           /\ pc' = IF made.raised THEN "except" ELSE "validate_directory"
    /\ UNCHANGED <<world, hcl, net, walk_pos, results, vd_state, io,
                   returned, summary>>

\* lines 160-165 of validate_directory: the listing and the gate on it
vd_discover ==
    /\ pc = "validate_directory"
    /\ results' = <<>>
    /\ IF tf_files(fs) = <<>>
       THEN vd_state' = "empty" /\ pc' = "report"
       ELSE vd_state' = "running" /\ pc' = "fmt"
    /\ UNCHANGED <<world, hcl, net, directory, walk_pos, io, returned,
                   summary>>

\* an `if not self.run_terraform_...(): self.logger.warning(...)` of lines 168-175
ToolStep(here, next, ran) ==
    /\ pc = here
    /\ io' = io \o ran.io
    /\ IF ran.raised
       THEN pc' = "except" /\ vd_state' = "raised"
       ELSE pc' = next /\ UNCHANGED vd_state
    /\ UNCHANGED <<world, hcl, net, directory, walk_pos, results, returned, summary>>

vd_fmt == \E o \in SubprocessOutcomes : ToolStep("fmt", "init", run_terraform_fmt(o))

vd_init == \E o \in SubprocessOutcomes : ToolStep("init", "validate", run_terraform_init(o))

vd_validate ==
    \E o \in SubprocessOutcomes : ToolStep("validate", "plan", run_terraform_validate(o))

vd_plan == \E o \in SubprocessOutcomes : ToolStep("plan", "walk", run_terraform_plan(o))

\* the files the loops of lines 178-179 have still to visit
Pairs == WalkPairs(directory, fs)

\* the ways a call of validate_file(file_path) can go: what the file holds
\* (h), what the network answers (n), and what the call then does (out)
ValidateFileRuns(file_path) ==
    {[h |-> h, n |-> n, out |-> validate_file(file_path, h, n)] :
        h \in HclChoices(file_path), n \in NetChoices}

\* a call of validate_file going as `run`: what is learnt of the files and of
\* the network, the calls made, the result returned
Calls_validate_file(run) ==
    /\ hcl' = run.h
    /\ net' = [u \in URLs |-> IF u \in Probed(run.out.io) THEN run.n[u] ELSE net[u]]
    /\ io' = io \o run.out.io
    /\ returned' = IF run.out.raised THEN returned ELSE Append(returned, run.out.ret)

\* lines 180-182: a file named *.tf is validated and its result appended
vd_file ==
    /\ pc = "walk"
    /\ walk_pos <= Len(Pairs)
    /\ endswith_tf(Pairs[walk_pos].file)
    /\ LET file_path == os_path_join(Pairs[walk_pos].root, Pairs[walk_pos].file)
       IN  \E run \in ValidateFileRuns(file_path) :
              /\ Calls_validate_file(run)
              /\ IF run.out.raised
                 THEN /\ pc' = "except" /\ vd_state' = "raised"
                      /\ UNCHANGED <<results, walk_pos>>
                 ELSE /\ results' = Append(results, run.out.ret)
                      /\ walk_pos' = walk_pos + 1
                      /\ UNCHANGED <<pc, vd_state>>
    /\ UNCHANGED <<world, directory, summary>>

\* line 180: any other file is passed over
vd_skip ==
    /\ pc = "walk"
    /\ walk_pos <= Len(Pairs)
    /\ ~endswith_tf(Pairs[walk_pos].file)
    /\ walk_pos' = walk_pos + 1
    /\ UNCHANGED <<world, hcl, net, pc, directory, results, vd_state, io,
                   returned, summary>>

\* `return results` indented into the loop: it returns before the walk is over
vd_return_in_loop ==
    /\ pc = "walk"
    /\ vd_state' = "completed"
    /\ pc' = "report"
    /\ UNCHANGED <<world, hcl, net, directory, walk_pos, results, io,
                   returned, summary>>

\* line 183: the walk is over
vd_return ==
    /\ pc = "walk"
    /\ walk_pos > Len(Pairs)
    /\ vd_state' = "completed"
    /\ pc' = "report"
    /\ UNCHANGED <<world, hcl, net, directory, walk_pos, results, io,
                   returned, summary>>

Invalid(r) == ~r.is_valid

\* lines 291-308 of main: the report and its summary
main_report ==
    /\ pc = "report"
    /\ summary' = [printed |-> TRUE,
                   total |-> Len(results),
                   with_issues |-> Len(SelectSeq(results, Invalid)),
                   failed |-> \E i \in DOMAIN results : ~results[i].is_valid]
    /\ pc' = "exit0"
    /\ UNCHANGED <<world, hcl, net, directory, walk_pos, results, vd_state, io, returned>>

\* lines 309-311 of main: the error is logged and raised again
main_except ==
    /\ pc = "except"
    /\ pc' = "exit1"
    /\ UNCHANGED <<world, hcl, net, directory, walk_pos, results, vd_state, io, returned, summary>>

Next ==
    \/ main_construct
    \/ vd_discover
    \/ vd_fmt
    \/ vd_init
    \/ vd_validate
    \/ vd_plan
    \/ vd_file
    \/ vd_skip
    \/ vd_return
    \/ main_report
    \/ main_except

Spec == Init /\ [][Next]_vars

\* ENABLED <<Next>>_vars. At "walk" one of vd_file, vd_skip and vd_return is
\* enabled: they split on walk_pos <= Len(Pairs) and on the file's name, and
\* a call of validate_file can always go some way (HclChoices and NetChoices
\* are never empty)
NextEnabled ==
    \/ ENABLED main_construct
    \/ ENABLED vd_discover
    \/ ENABLED vd_fmt
    \/ ENABLED vd_init
    \/ ENABLED vd_validate
    \/ ENABLED vd_plan
    \/ pc = "walk"
    \/ ENABLED main_report
    \/ ENABLED main_except

\* main is one thread that runs until it exits: weak fairness of Next,
\* []<>~ENABLED <<Next>>_vars \/ []<><<Next>>_vars, where a step that changes
\* vars is a step of Next because every step of Spec is one of [Next]_vars
FairSpec == Spec /\ ([]<>(~NextEnabled) \/ []<><<TRUE>>_vars)

----------------------------------------------------------------------------
(* The class used directly: a client constructs a validator and calls        *)
(* validate_file on .tf files of the tree, up to MaxCalls times in all.      *)

\* the client runs no subcommand: the binary plays no part
InitAPI == InitWorld /\ on_path = TRUE /\ pc = "client"

\* TerraformValidator(path)
api_construct ==
    /\ pc = "client"
    /\ directory = None
    /\ LET made == TerraformValidator_init(DirPath, target, fs)
       IN  /\ directory' = made.directory
           /\ pc' = IF made.raised THEN "client_except" ELSE "client"
    /\ UNCHANGED <<world, hcl, net, walk_pos, results, vd_state, io, returned, summary>>

\* validator.validate_file(file_path)
api_validate_file ==
    /\ pc = "client"
    /\ directory # None
    /\ Len(returned) < MaxCalls
    /\ \E file_path \in Range(TfPaths) :
          \E run \in ValidateFileRuns(file_path) :
             /\ Calls_validate_file(run)
             /\ pc' = IF run.out.raised THEN "client_except" ELSE "client"
    /\ UNCHANGED <<world, directory, walk_pos, results, vd_state, summary>>

NextAPI == api_construct \/ api_validate_file

SpecAPI == InitAPI /\ [][NextAPI]_vars

----------------------------------------------------------------------------
(* Properties *)

ParseFailed(file_path) == hcl[file_path].state = "error"

\* C2: a file whose parsing fails gets a result with exactly one issue and
\* is_valid = FALSE, the error never leaves validate_file, and a completed
\* validate_directory has a result for every discovered file, those after the
\* failing one included
C2_ParseFailureIsOneIssue ==
    /\ vd_state # "raised"
    /\ \A i \in DOMAIN results :
          /\ results[i].file_path = TfPaths[i]
          /\ ParseFailed(TfPaths[i]) =>
                Len(results[i].issues) = 1 /\ ~results[i].is_valid
    /\ vd_state = "completed" => Len(results) = Len(TfPaths)

C2_Witness ==
    /\ vd_state = "completed"
    /\ Len(results) >= 2
    /\ ParseFailed(results[1].file_path)
    /\ ~ParseFailed(results[2].file_path)

\* C3: every ValidationResult validate_file returns, and so every element of
\* validate_directory's results, has is_valid = (issues is empty)
C3_ValidIffNoIssues ==
    /\ \A i \in DOMAIN returned : returned[i].is_valid = (returned[i].issues = <<>>)
    /\ \A i \in DOMAIN results : results[i].is_valid = (results[i].issues = <<>>)

C3_Witness ==
    /\ vd_state = "completed"
    /\ \E i, k \in DOMAIN results :
          /\ ParseFailed(results[i].file_path)
          /\ ~ParseFailed(results[k].file_path) /\ ~results[k].is_valid

\* C9: when the path does not exist or is not a directory, no validator is
\* made, no subcommand runs, no file is parsed, no probe is sent and main
\* prints no summary: main ends by raising
C9_BadPathRaisesFirst ==
    target # "dir" =>
        /\ directory = None
        /\ io = <<>>
        /\ results = <<>> /\ returned = <<>>
        /\ vd_state = "idle"
        /\ ~summary.printed
        /\ pc \in {"main", "except", "exit1"}

C9_Witness == target = "file" /\ pc = "exit1"

\* C10: two calls of validate_file on one file, the file, the file system and
\* the network unchanged between them, return the same ValidationResult
C10_ValidateFileIdempotent ==
    \A i, j \in DOMAIN returned :
        returned[i].file_path = returned[j].file_path => returned[i] = returned[j]

C10_Witness ==
    /\ Len(returned) >= 2
    /\ returned[1].file_path = returned[2].file_path
    /\ returned[1].issues # <<>>
    /\ ~ParseFailed(returned[1].file_path)
    /\ Len(returned[1].issues[1].list) >= 2

(* What the claims expect, stated without the validator's own operators *)

RemoteSources == {src_http, src_https}
LocalSources == {src_local}
OtherSources == {src_git}

\* src_local is ./m: it exists when the target directory holds an entry m
LocalSourceExists(source) == \E i \in DOMAIN fs : fs[i].name = m_dir

Problematic(m) ==
    \/ /\ m.source \in RemoteSources
       /\ \/ net[m.source].kind = "exception"
          \/ net[m.source].kind = "response" /\ net[m.source].status_code >= 400
    \/ /\ m.source \in LocalSources
       /\ ~LocalSourceExists(m.source)

ExpectedIssue(m) ==
    IF m.source \in RemoteSources
    THEN UnreachableSource(m.name, m.source)
    ELSE MissingLocalSource(m.name, m.source)

\* one issue per problematic module, in module order
RECURSIVE ExpectedModuleIssues(_)
ExpectedModuleIssues(modules) ==
    IF modules = <<>> THEN <<>>
    ELSE (IF Problematic(Head(modules)) THEN <<ExpectedIssue(Head(modules))>> ELSE <<>>)
            \o ExpectedModuleIssues(Tail(modules))

\* the module checker's list as a ValidationResult carries it
ModuleIssuesOf(r) == IF r.issues = <<>> THEN <<>> ELSE r.issues[1].list

ToolOps == <<"terraform fmt -check", "terraform init", "terraform validate",
             "terraform plan">>

IsToolCall(c) == c.op \in Range(ToolOps)

\* the subcommands run so far, in order
ToolCalls == LET t == SelectSeq(io, IsToolCall) IN [i \in DOMAIN t |-> t[i].op]

\* every file of the tree, found by descent
RECURSIVE TreeFiles(_, _)
TreeFiles(prefix, listing) ==
    UNION {IF listing[i].isdir
           THEN TreeFiles(prefix \o <<"/">> \o listing[i].name, listing[i].children)
           ELSE {prefix \o <<"/">> \o listing[i].name} : i \in DOMAIN listing}

\* the candidate files: the files of the tree named *.tf
CandidateFiles == {f \in TreeFiles(DirPath, fs) : EndsWith(f, <<".", "t", "f">>)}

ResultPaths == {results[i].file_path : i \in DOMAIN results}

\* C1 as stated: a target directory that holds no .tf file makes
\* validate_directory return nothing, run no subcommand, parse no file and
\* send no probe
C1_NoTfFilesNoCalls ==
    (target = "dir" /\ CandidateFiles = {} /\ vd_state # "idle") =>
        /\ vd_state = "empty"
        /\ results = <<>>
        /\ io = <<>>

\* C4: the module checker's list holds exactly one issue, naming module and
\* source, for each module whose http/https source answers >= 400 or fails,
\* or whose scheme-less source does not exist below the directory; it holds
\* nothing for any other module, and a source of another scheme causes
\* neither a probe nor a file-system check
C4_OneIssuePerProblematicModule ==
    /\ \A i \in DOMAIN returned :
          LET r == returned[i]
              modules == hcl[r.file_path].module
              list == ModuleIssuesOf(r)
          IN  ~ParseFailed(r.file_path) =>
                /\ \A k \in DOMAIN modules :
                      LET hits == {x \in DOMAIN list : list[x].module = modules[k].name}
                      IN  IF Problematic(modules[k])
                          THEN /\ Cardinality(hits) = 1
                               /\ \A x \in hits : list[x] = ExpectedIssue(modules[k])
                          ELSE hits = {}
                /\ \A x \in DOMAIN list :
                      \E k \in DOMAIN modules : list[x].module = modules[k].name
    /\ \A c \in DOMAIN io : \A s \in OtherSources :
          io[c].arg \notin {s, DirPath \o <<"/">> \o s}

C4_Witness ==
    \E i \in DOMAIN returned :
        LET list == ModuleIssuesOf(returned[i])
        IN  /\ ~ParseFailed(returned[i].file_path)
            /\ Len(list) = 2
            /\ list[1].source = src_local
            /\ list[2].source \in RemoteSources
            /\ net[list[2].source] = Response(400)

\* C5 as stated: for a file that parses, the number of issues is the number
\* of problematic modules plus the number of unreachable extracted URLs
\* (extract_urls yields none)
C5_IssuesAreConcatenation ==
    \A i \in DOMAIN returned :
        ~ParseFailed(returned[i].file_path) =>
            Len(returned[i].issues)
                = Len(ExpectedModuleIssues(hcl[returned[i].file_path].module))

\* C5 amended: for a file that parses, the issues hold one entry for the
\* module checker when it found something, which embeds its whole list in
\* module order, and nothing else, as no URL is extracted
C5_OneIssuePerChecker ==
    \A i \in DOMAIN returned :
        LET expected == ExpectedModuleIssues(hcl[returned[i].file_path].module)
        IN  ~ParseFailed(returned[i].file_path) =>
                returned[i].issues
                    = IF expected = <<>> THEN <<>>
                      ELSE <<InvalidSourcesIssue(expected)>>

C5_Witness ==
    \E i \in DOMAIN returned :
        /\ ~ParseFailed(returned[i].file_path)
        /\ Len(returned[i].issues) = 1
        /\ Len(returned[i].issues[1].list) = 2

\* what validate_file is to return for a file, from the file, the file
\* system and the network alone
ExpectedResult(file_path) ==
    LET expected == ExpectedModuleIssues(hcl[file_path].module)
    IN  IF ParseFailed(file_path)
        THEN ValidationResult(file_path, <<ErrorIssue(file_path)>>, FALSE)
        ELSE ValidationResult(file_path,
                              IF expected = <<>> THEN <<>>
                              ELSE <<InvalidSourcesIssue(expected)>>,
                              expected = <<>>)

\* C6: past the gate the four subcommands run once each, in the order fmt,
\* init, validate, plan, all before the first file is read; whatever they
\* return nothing is raised, and the results are those the files, the file
\* system and the network alone determine
C6_ToolsAdvisory ==
    /\ ToolCalls = SubSeq(ToolOps, 1, Len(ToolCalls))
    /\ \A i, j \in DOMAIN io : (IsToolCall(io[i]) /\ ~IsToolCall(io[j])) => i < j
    /\ vd_state = "running" =>
          Len(ToolCalls) = (CASE pc = "fmt" -> 0 [] pc = "init" -> 1
                              [] pc = "validate" -> 2 [] pc = "plan" -> 3
                              [] OTHER -> 4)
    /\ vd_state = "completed" => Len(ToolCalls) = 4
    /\ vd_state # "raised"
    /\ \A i \in DOMAIN results : results[i] = ExpectedResult(TfPaths[i])

C6_Witness ==
    /\ ~on_path
    /\ vd_state = "completed"
    /\ \E i \in DOMAIN results : results[i].is_valid

\* C7 as stated: when validate_directory ends, the results are one per
\* candidate file of the tree, none missing and none twice
C7_OneResultPerCandidate ==
    vd_state \in {"empty", "completed"} =>
        /\ ResultPaths = CandidateFiles
        /\ Len(results) = Cardinality(CandidateFiles)

\* C7 amended: when validate_directory ends past the gate, the results are
\* one per candidate file of the tree, none missing and none twice, in
\* os.walk order; when the top directory lists no name ending in .tf, the
\* result is empty whatever the subdirectories hold
C7_OneResultPerCandidatePastGate ==
    /\ vd_state = "completed" =>
          /\ ResultPaths = CandidateFiles
          /\ Len(results) = Cardinality(CandidateFiles)
          /\ \A i \in DOMAIN results : results[i].file_path = TfPaths[i]
          /\ \E i \in DOMAIN fs : EndsWith(fs[i].name, <<".", "t", "f">>)
    /\ vd_state = "empty" =>
          /\ results = <<>>
          /\ ~\E i \in DOMAIN fs : EndsWith(fs[i].name, <<".", "t", "f">>)

C7_Witness ==
    /\ vd_state = "completed"
    /\ Len(results) = 2
    /\ fs[1].isdir
    /\ results[1].file_path = DirPath \o <<"/">> \o a_tf
    /\ results[2].file_path = DirPath \o <<"/">> \o m_dir \o <<"/">> \o c_tf

\* no step of validate_directory is done twice, and it never ends with part
\* of the files done
C8_NoRetryNoPartial ==
    /\ vd_state \in {"idle", "running", "empty", "completed"}
    /\ \A i, j \in DOMAIN io :
          (io[i] = io[j] /\ (IsToolCall(io[i]) \/ io[i].op = "open")) => i = j
    /\ vd_state = "empty" => results = <<>> /\ io = <<>>
    /\ vd_state = "completed" => ResultPaths = Range(TfPaths)

\* C8: a run of validate_directory always ends, in "empty" or in
\* "completed" with every discovered file done; nothing is retried and no
\* run ends with part of the files done
C8_RunsToCompletion ==
    /\ []C8_NoRetryNoPartial
    /\ (pc = "validate_directory") ~> (vd_state \in {"empty", "completed"})

C8_Witness ==
    /\ vd_state = "completed"
    /\ ~on_path
    /\ Len(results) = 2
    /\ ParseFailed(results[1].file_path)
    /\ ~results[2].is_valid

====
